---- MODULE Spec2Model ----
(***************************************************************************)
(* Model of app.py of steamlens-backend: a Flask application with two      *)
(* routes, GET /pipelines (get_pipeline_names) and GET /dynamic-pipeline   *)
(* (dynamic_pipeline), a MongoDB database with the collections "pipelines" *)
(* and "games", and the Gemini call memoised by functools.lru_cache        *)
(* (cached_ai_summary).                                                    *)
(*                                                                         *)
(* Python strings are TLA+ strings, f-strings are concatenations with \o.  *)
(* The module is ASCII: LDQ and RDQ stand for the characters U+201C and    *)
(* U+201D of the source's string literals.  An optional value (None, an    *)
(* absent dictionary key, an absent query parameter) is the empty          *)
(* sequence, a present value v is <<v>>.                                   *)
(***************************************************************************)
EXTENDS Integers, Sequences, FiniteSets, TLC

VARIABLES
    pipes,          \* db["pipelines"]: the pipeline documents, in natural order
    games,          \* db["games"]: the genre of each game document
    cache,          \* the lru_cache of cached_ai_summary, least recently used first
    th,             \* per worker thread: the request it handles and how far it got
    providerCalls,  \* number of generate_content calls started so far
    nreq,           \* number of requests (or direct calls) received so far
    nresp,          \* number of responses (or returns) given so far
    req,            \* the request that the last step answered, if it answered one
    resp,           \* its response
    trace,          \* what the handler did for it
    hist,           \* per name: the last 200 answer, with what it was computed from
    lastUse,        \* per cached prompt: the time of its last hit or insertion
    completed,      \* the generate_content calls that returned: prompt and text
    failed          \* the prompts whose generate_content call raised, and that
                    \* cached_ai_summary has not been called with since

vars == <<pipes, games, cache, th, providerCalls, nreq, nresp, req, resp, trace,
          hist, lastUse, completed, failed>>

----------------------------------------------------------------------------
(* Bounds of the model *)

MaxRequests == 2
MaxRepeats == 4
MaxCacheCalls == 3

(* Program constants *)

MaxSize == 32

----------------------------------------------------------------------------
(* Values *)

None == << >>
Some(v) == <<v>>

LDQ == "<q>"
RDQ == "</q>"

GROUP_STAGES == "[{'$group': {'_id': '$genre', 'count': {'$sum': 1}}}]"
BAD_STAGES == "[{'$grp': {}}]"

(* Pipeline documents: with and without a description, with stages the    *)
(* server rejects, and without the "pipeline" key.                         *)
TopGenres ==
    [name |-> "top", description |-> Some("Most played genres"),
     pipeline |-> Some(GROUP_STAGES)]
Undescribed ==
    [name |-> "top", description |-> None, pipeline |-> Some(GROUP_STAGES)]
Broken ==
    [name |-> "bad", description |-> None, pipeline |-> Some(BAD_STAGES)]
NoStages ==
    [name |-> "bad", description |-> Some("Draft"), pipeline |-> None]

(* The contents of db["pipelines"] that occur, in natural order. *)
PipeCollections ==
    { << >>,
      <<TopGenres>>,
      <<Undescribed, TopGenres>>,
      <<TopGenres, Broken>>,
      <<NoStages, Undescribed>> }

(* The contents of db["games"] that occur: the genre of each document. *)
GameCollections ==
    { << >>, <<"A">>, <<"B", "A">>, <<"A", "A", "B">> }

StoredNames == {"top", "bad"}

(* The values of request.args.get("name"). *)
NameArgs == {None, Some(""), Some("top"), Some("bad"), Some("nope")}

(* What model.generate_content(prompt).text does: it returns a text or raises. *)
Texts == {"s1", "s2"}
ProviderOutcomes ==
    [ok : {TRUE}, text : Texts] \cup {[ok |-> FALSE, text |-> "429 quota exceeded"]}

(* What the MongoDB server does to a command beyond evaluating it. *)
NoFault == ""
StoreFaults == {NoFault, "timed out"}

----------------------------------------------------------------------------
(* The MongoDB collections *)

Min(S) == CHOOSE x \in S : \A y \in S : x <= y

(* pipes.find_one({"name": name}): the first document, in natural order,   *)
(* whose name equals the argument, or None.                                *)
find_one(coll, name) ==
    LET idx == {i \in 1..Len(coll) : coll[i].name = name}
    IN  IF idx = {} THEN None ELSE Some(coll[Min(idx)])

(* Variant: the name of every document, repeated names included. *)
distinct_All(coll) == [i \in 1..Len(coll) |-> coll[i].name]

(* pipes.distinct("name"): the names of the documents, each once, in the   *)
(* order of their first occurrence.                                        *)
RECURSIVE distinct(_)
distinct(coll) ==
    IF coll = << >> THEN << >>
    ELSE LET front == distinct(SubSeq(coll, 1, Len(coll) - 1))
             last  == coll[Len(coll)].name
         IN  IF \E i \in 1..Len(front) : front[i] = last
             THEN front
             ELSE Append(front, last)

(* The genres of a collection, each once, in the order of first occurrence. *)
RECURSIVE GenresOf(_)
GenresOf(coll) ==
    IF coll = << >> THEN << >>
    ELSE LET front == GenresOf(SubSeq(coll, 1, Len(coll) - 1))
             last  == coll[Len(coll)]
         IN  IF \E i \in 1..Len(front) : front[i] = last
             THEN front
             ELSE Append(front, last)

Count(coll, g) == Cardinality({i \in 1..Len(coll) : coll[i] = g})

(* The $group stage of GROUP_STAGES: one record per genre with the number  *)
(* of game documents of that genre.                                        *)
GroupByGenre(coll) ==
    LET gs == GenresOf(coll)
    IN  [i \in 1..Len(gs) |-> [_id |-> gs[i], count |-> Count(coll, gs[i])]]

(* list(games.aggregate(stages)): the records, or an exception with its    *)
(* message.  A server fault fails any command; an unknown stage name is    *)
(* rejected by the server.                                                 *)
aggregate(stages, coll, fault) ==
    IF fault # NoFault
    THEN [ok |-> FALSE, data |-> << >>, cause |-> fault]
    ELSE IF stages = GROUP_STAGES
    THEN [ok |-> TRUE, data |-> GroupByGenre(coll), cause |-> ""]
    ELSE [ok |-> FALSE, data |-> << >>,
          cause |-> "Unrecognized pipeline stage name: '$grp'"]

(* doc["pipeline"] of line 60: the stages, or KeyError('pipeline') when the  *)
(* document has no such key; the argument is evaluated before              *)
(* games.aggregate is called.                                              *)
HasStages(doc) == doc.pipeline # None

StagesOf(doc) == doc.pipeline[1]

(* str(KeyError('pipeline')) *)
KeyErrorText == "'pipeline'"

----------------------------------------------------------------------------
(* Prompt construction *)

(* str() of one record of the aggregation result. *)
StrRecord(r) ==
    "{'_id': '" \o r._id \o "', 'count': " \o ToString(r.count) \o "}"

RECURSIVE JoinRecords(_)
JoinRecords(data) ==
    IF Len(data) = 0 THEN ""
    ELSE IF Len(data) = 1 THEN StrRecord(data[1])
    ELSE StrRecord(data[1]) \o ", " \o JoinRecords(Tail(data))

(* str(data), the f-string's rendering of the list of records. *)
StrData(data) == "[" \o JoinRecords(data) \o "]"

(* Variant: doc.get("description") without the default, rendered "None". *)
GetDescription_NoDefault(doc) ==
    IF doc.description = None THEN "None" ELSE doc.description[1]

(* doc.get("description", "") *)
GetDescription(doc) ==
    IF doc.description = None THEN "" ELSE doc.description[1]

(* The f-string of lines 65-66. *)
BuildPrompt(name, doc, data) ==
    "Summarize this data insight about " \o LDQ \o name \o RDQ \o ". "
        \o GetDescription(doc) \o "\n\n" \o StrData(data)

----------------------------------------------------------------------------
(* functools.lru_cache(maxsize=32) around cached_ai_summary *)

CacheIndex(c, prompt) == {i \in 1..Len(c) : c[i].prompt = prompt}

InCache(c, prompt) == CacheIndex(c, prompt) # {}

CacheValue(c, prompt) == c[Min(CacheIndex(c, prompt))].value

RemoveAt(c, i) == SubSeq(c, 1, i - 1) \o SubSeq(c, i + 1, Len(c))

(* Variant: a hit leaves the order alone, the cache evicts first-in first-out. *)
Touch_NoRefresh(c, prompt) == c

(* A hit makes the entry the most recently used one. *)
Touch(c, prompt) ==
    LET i == Min(CacheIndex(c, prompt))
    IN  Append(RemoveAt(c, i), c[i])

(* Variant: a result is stored without an eviction. *)
LruInsert_NoEviction(c, prompt, value) ==
    Append(c, [prompt |-> prompt, value |-> value])

(* A result is stored as the most recently used entry; a full cache drops  *)
(* its least recently used entry for it.                                   *)
LruInsert(c, prompt, value) ==
    LET e == [prompt |-> prompt, value |-> value]
    IN  IF Len(c) >= MaxSize THEN Append(Tail(c), e) ELSE Append(c, e)


(* Variant: the lookup never finds the key. *)
lru_lookup_AlwaysMiss(c, prompt) ==
    [hit |-> FALSE, value |-> "", cache |-> c]

(* The lookup of lru_cache, made under its lock: the stored value of a hit *)
(* and the cache afterwards.                                               *)
lru_lookup(c, prompt) ==
    IF InCache(c, prompt)
    THEN [hit |-> TRUE, value |-> CacheValue(c, prompt), cache |-> Touch(c, prompt)]
    ELSE [hit |-> FALSE, value |-> "", cache |-> c]

(* Variant: a key that was stored in the meantime gets the new value. *)
lru_store_Overwrites(c, prompt, value) ==
    IF InCache(c, prompt)
    THEN [i \in 1..Len(c) |-> IF c[i].prompt = prompt
                              THEN [prompt |-> prompt, value |-> value]
                              ELSE c[i]]
    ELSE LruInsert(c, prompt, value)

(* The update of lru_cache after the wrapped function returned, made under *)
(* its lock: a key that was stored in the meantime is left alone, with its *)
(* value and its place.                                                    *)
lru_store(c, prompt, value) ==
    IF InCache(c, prompt) THEN c ELSE LruInsert(c, prompt, value)

(* Variant: a failure is stored under the prompt before it propagates. *)
cached_ai_summary_return_CachesError(c, prompt, outcome) ==
    [raised |-> ~outcome.ok, value |-> outcome.text,
     cache |-> lru_store(c, prompt, outcome.text)]

(* cached_ai_summary(prompt) after a miss, when generate_content (line 40, *)
(* called outside the lock) has done `outcome`: its text is stored and     *)
(* returned, its exception propagates and stores nothing.                  *)
cached_ai_summary_return(c, prompt, outcome) ==
    IF outcome.ok
    THEN [raised |-> FALSE, value |-> outcome.text,
          cache |-> lru_store(c, prompt, outcome.text)]
    ELSE [raised |-> TRUE, value |-> outcome.text, cache |-> c]

----------------------------------------------------------------------------
(* dynamic_pipeline in a worker thread: the handler between its blocking   *)
(* calls (find_one, aggregate, generate_content).  What a request did is   *)
(* logged in `trace`: the stages in the order reached, what each stage     *)
(* gave, and the call of generate_content if one was made.                 *)

Threads == {1, 2}

NoResponse == [status |-> 0, body |-> [none |-> TRUE]]

(* Besides what the request did, the log notes what went before it: the    *)
(* earlier 200 answer for its name (prior), and whether its prompt had     *)
(* failed when it called cached_ai_summary (retry).                        *)
NoTrace ==
    [calls |-> << >>, lookup |-> "skipped", agg |-> "skipped",
     sum |-> "skipped", cause |-> "", doc |-> None, data |-> None,
     prompt |-> None, provider |-> None, prior |-> None, retry |-> FALSE]

IdleThread ==
    [pc |-> "idle", arg |-> None, trace |-> NoTrace, resp |-> NoResponse]

(* jsonify({"error": message}), status *)
ErrorResponse(status, message) ==
    [status |-> status, body |-> [error |-> message]]

(* An exception that leaves a view function: Flask answers 500 with its    *)
(* HTML error page.                                                        *)
Unhandled500 ==
    [status |-> 500, body |-> [html |-> "Internal Server Error"]]

(* Variant: only an absent parameter counts as missing (`name is None`). *)
MissingName_NoneOnly(nameArg) == nameArg = None

(* `not name` of line 52: the parameter is absent or the empty string. *)
MissingName(nameArg) == nameArg = None \/ nameArg[1] = ""

(* Variant: the message is no f-string, the name is not substituted. *)
NotFound_NoFormat(name) ==
    ErrorResponse(404, "No pipeline named " \o LDQ \o "{name}" \o RDQ)

(* Line 57. *)
NotFound(name) ==
    ErrorResponse(404, "No pipeline named " \o LDQ \o name \o RDQ)

(* Variant: title and description are taken from each other's value. *)
OkResponse_Swapped(name, doc, data, summary) ==
    [status |-> 200,
     body |-> [title |-> GetDescription(doc),
               description |-> name,
               data |-> data,
               ai_summary |-> summary]]

(* Lines 73-78. *)
OkResponse(name, doc, data, summary) ==
    [status |-> 200,
     body |-> [title |-> name,
               description |-> GetDescription(doc),
               data |-> data,
               ai_summary |-> summary]]

(* return of the view function: the response of the request *)
Respond(thr, response) == [thr EXCEPT !.pc = "done", !.resp = response]

(* Lines 51-53: a new request. *)
dp_validate(nameArg) ==
    IF MissingName(nameArg)
    THEN Respond([IdleThread EXCEPT !.arg = nameArg],
                 ErrorResponse(400, "Missing pipeline name"))
    ELSE [IdleThread EXCEPT !.pc = "lookup", !.arg = nameArg]

(* Lines 59-63 for a document without the key "pipeline": the KeyError is  *)
(* caught and answered before games.aggregate is called.                   *)
NoStagesError(thr, doc) ==
    Respond([thr EXCEPT !.trace.agg = "raised", !.trace.cause = KeyErrorText,
                        !.trace.doc = Some(doc)],
            ErrorResponse(500, "MongoDB error: " \o KeyErrorText))

(* Variant: a lookup that raises is tried again. *)
dp_lookup_Retries(thr, P, lookupFault) ==
    LET logged == [thr EXCEPT !.trace.calls = Append(thr.trace.calls, "find_one")]
        doc    == find_one(P, thr.arg[1])
    IN  IF lookupFault THEN logged
        ELSE IF doc = None
        THEN Respond([logged EXCEPT !.trace.lookup = "missing"],
                     NotFound(thr.arg[1]))
        ELSE IF ~HasStages(doc[1])
        THEN NoStagesError([logged EXCEPT !.trace.lookup = "found"], doc[1])
        ELSE [logged EXCEPT !.pc = "aggregate", !.trace.lookup = "found",
                            !.trace.doc = doc]

(* Variant: a lookup that raises is taken for a lookup that finds nothing. *)
dp_lookup_Swallowed(thr, P, lookupFault) ==
    LET logged == [thr EXCEPT !.trace.calls = Append(thr.trace.calls, "find_one")]
        doc    == find_one(P, thr.arg[1])
    IN  IF lookupFault
        THEN Respond([logged EXCEPT !.trace.lookup = "raised",
                                    !.trace.cause = "No servers found yet"],
                     NotFound(thr.arg[1]))
        ELSE IF doc = None
        THEN Respond([logged EXCEPT !.trace.lookup = "missing"],
                     NotFound(thr.arg[1]))
        ELSE IF ~HasStages(doc[1])
        THEN NoStagesError([logged EXCEPT !.trace.lookup = "found"], doc[1])
        ELSE [logged EXCEPT !.pc = "aggregate", !.trace.lookup = "found",
                            !.trace.doc = doc]

(* Lines 55-60 when find_one answers: it raises (the exception leaves the  *)
(* view), finds nothing (404), or finds a document; a document without     *)
(* stages is answered at once, otherwise games.aggregate is called.        *)
dp_lookup(thr, P, lookupFault) ==
    LET logged == [thr EXCEPT !.trace.calls = Append(thr.trace.calls, "find_one")]
        doc    == find_one(P, thr.arg[1])
    IN  IF lookupFault
        THEN Respond([logged EXCEPT !.trace.lookup = "raised",
                                    !.trace.cause = "No servers found yet"],
                     Unhandled500)
        ELSE IF doc = None
        THEN Respond([logged EXCEPT !.trace.lookup = "missing"],
                     NotFound(thr.arg[1]))
        ELSE IF ~HasStages(doc[1])
        THEN NoStagesError([logged EXCEPT !.trace.lookup = "found"], doc[1])
        ELSE [logged EXCEPT !.pc = "aggregate", !.trace.lookup = "found",
                            !.trace.doc = doc]

(* Variant: a failed aggregation is taken for an empty result. *)
dp_aggregate_Conflated(thr, G, c, aggFault) ==
    LET logged == [thr EXCEPT !.trace.calls = Append(thr.trace.calls, "aggregate")]
        a      == aggregate(StagesOf(thr.trace.doc[1]), G, aggFault)
    IN  [thr |-> [logged EXCEPT !.pc = "summarize",
                                !.trace.agg = IF a.ok THEN "ok" ELSE "raised",
                                !.trace.cause = a.cause,
                                !.trace.data = Some(a.data)],
         cache |-> c]

(* Variant: a failed aggregation also empties the summary cache. *)
dp_aggregate_ClearsCache(thr, G, c, aggFault) ==
    LET logged == [thr EXCEPT !.trace.calls = Append(thr.trace.calls, "aggregate")]
        a      == aggregate(StagesOf(thr.trace.doc[1]), G, aggFault)
    IN  IF ~a.ok
        THEN [thr |-> Respond([logged EXCEPT !.trace.agg = "raised",
                                             !.trace.cause = a.cause],
                              ErrorResponse(500, "MongoDB error: " \o a.cause)),
              cache |-> << >>]
        ELSE [thr |-> [logged EXCEPT !.pc = "summarize", !.trace.agg = "ok",
                                     !.trace.data = Some(a.data)],
              cache |-> c]

(* Lines 60-63 when games.aggregate answers: its exception is answered     *)
(* 500, its records go on to the prompt.  The summary cache is not touched. *)
dp_aggregate(thr, G, c, aggFault) ==
    LET logged == [thr EXCEPT !.trace.calls = Append(thr.trace.calls, "aggregate")]
        a      == aggregate(StagesOf(thr.trace.doc[1]), G, aggFault)
    IN  IF ~a.ok
        THEN [thr |-> Respond([logged EXCEPT !.trace.agg = "raised",
                                             !.trace.cause = a.cause],
                              ErrorResponse(500, "MongoDB error: " \o a.cause)),
              cache |-> c]
        ELSE [thr |-> [logged EXCEPT !.pc = "summarize", !.trace.agg = "ok",
                                     !.trace.data = Some(a.data)],
              cache |-> c]

(* Variant: the cache is keyed by name and description, without the data. *)
dp_summary_begin_KeyedWithoutData(thr, c) ==
    LET name   == thr.arg[1]
        doc    == thr.trace.doc[1]
        data   == thr.trace.data[1]
        prompt == BuildPrompt(name, doc, << >>)
        logged == [thr EXCEPT !.trace.prompt = Some(prompt),
                              !.trace.calls = thr.trace.calls
                                  \o <<"build_prompt", "cached_ai_summary">>]
        l      == lru_lookup(c, prompt)
    IN  IF l.hit
        THEN [thr |-> Respond([logged EXCEPT !.trace.sum = "hit"],
                              OkResponse(name, doc, data, l.value)),
              cache |-> l.cache, called |-> FALSE]
        ELSE [thr |-> [logged EXCEPT !.pc = "provider",
                                     !.trace.calls = Append(logged.trace.calls,
                                                            "generate_content")],
              cache |-> l.cache, called |-> TRUE]

(* Lines 65-68 up to the call of generate_content: the prompt is built and *)
(* cached_ai_summary is entered; a hit answers the request (lines 73-78),  *)
(* a miss calls generate_content outside the lock.                         *)
dp_summary_begin(thr, c) ==
    LET name   == thr.arg[1]
        doc    == thr.trace.doc[1]
        data   == thr.trace.data[1]
        prompt == BuildPrompt(name, doc, data)
        logged == [thr EXCEPT !.trace.prompt = Some(prompt),
                              !.trace.calls = thr.trace.calls
                                  \o <<"build_prompt", "cached_ai_summary">>]
        l      == lru_lookup(c, prompt)
    IN  IF l.hit
        THEN [thr |-> Respond([logged EXCEPT !.trace.sum = "hit"],
                              OkResponse(name, doc, data, l.value)),
              cache |-> l.cache, called |-> FALSE]
        ELSE [thr |-> [logged EXCEPT !.pc = "provider",
                                     !.trace.calls = Append(logged.trace.calls,
                                                            "generate_content")],
              cache |-> l.cache, called |-> TRUE]

(* The call of generate_content that a request made. *)
ProviderCall(prompt, outcome) ==
    Some([prompt |-> prompt, ok |-> outcome.ok, text |-> outcome.text])

(* Variant: a failed summary is answered 200 with an empty ai_summary. *)
dp_summary_end_Placeholder(thr, c, outcome) ==
    LET prompt == thr.trace.prompt[1]
        r      == cached_ai_summary_return(c, prompt, outcome)
        logged == [thr EXCEPT !.trace.provider = ProviderCall(prompt, outcome),
                              !.trace.sum = IF r.raised THEN "raised" ELSE "computed",
                              !.trace.cause = IF r.raised THEN r.value ELSE ""]
    IN  [thr |-> Respond(logged, OkResponse(thr.arg[1], thr.trace.doc[1],
                                            thr.trace.data[1],
                                            IF r.raised THEN "" ELSE r.value)),
         cache |-> r.cache]

(* Lines 38-40 and 68-78 when generate_content answers: its text is stored *)
(* and returned in the 200 answer, its exception is answered 500.          *)
dp_summary_end(thr, c, outcome) ==
    LET prompt == thr.trace.prompt[1]
        r      == cached_ai_summary_return(c, prompt, outcome)
        logged == [thr EXCEPT !.trace.provider = ProviderCall(prompt, outcome),
                              !.trace.sum = IF r.raised THEN "raised" ELSE "computed",
                              !.trace.cause = IF r.raised THEN r.value ELSE ""]
    IN  IF r.raised
        THEN [thr |-> Respond(logged, ErrorResponse(500, "Gemini error: " \o r.value)),
              cache |-> r.cache]
        ELSE [thr |-> Respond(logged, OkResponse(thr.arg[1], thr.trace.doc[1],
                                                 thr.trace.data[1], r.value)),
              cache |-> r.cache]

(* get_pipeline_names(): the JSON array of pipes.distinct("name"), or the  *)
(* exception of distinct leaving the view.                                 *)
get_pipeline_names(P, lookupFault) ==
    IF lookupFault
    THEN Unhandled500
    ELSE [status |-> 200, body |-> [array |-> distinct(P)]]

----------------------------------------------------------------------------
(* Bookkeeping of the observers *)

NoRequest == [op |-> "none", arg |-> None]

(* req, resp and trace describe the request that the last step answered;   *)
(* a step that answers none clears them.                                   *)
Forget ==
    /\ req' = NoRequest
    /\ resp' = NoResponse
    /\ trace' = NoTrace

Prompts(c) == {c[i].prompt : i \in 1..Len(c)}

Entries(c) == {c[i] : i \in 1..Len(c)}

Max(S) == CHOOSE x \in S : \A y \in S : y <= x

(* The time of the next use of the cache. *)
Now(lu) == 1 + Max({0} \cup {lu[p] : p \in DOMAIN lu})

(* The time of the last use of every cached prompt, after `prompt` was hit *)
(* or inserted and the cache became c2.                                    *)
Used(lu, c2, prompt) ==
    [p \in Prompts(c2) |-> IF p = prompt THEN Now(lu) ELSE lu[p]]

NoHist == [n \in StoredNames |-> None]

(* The 200 answer of a request: its prompt, its summary, and whether that  *)
(* summary is the one the cache holds for the prompt afterwards.           *)
Remember(h, thr, c2) ==
    IF thr.resp.status = 200 /\ thr.arg[1] \in StoredNames
                             /\ thr.trace.prompt # None
    THEN [h EXCEPT ![thr.arg[1]] =
              Some([prompt  |-> thr.trace.prompt[1],
                    summary |-> thr.resp.body.ai_summary,
                    kept    |-> [prompt |-> thr.trace.prompt[1],
                                 value  |-> thr.resp.body.ai_summary]
                                    \in Entries(c2)])]
    ELSE h

(* The earlier 200 answer for the name of a request that arrives now. *)
PriorOf(h, nameArg) ==
    IF nameArg # None /\ nameArg[1] \in StoredNames THEN h[nameArg[1]] ELSE None

(* Thread t has taken a step of its request and is now as thr: when the    *)
(* request is answered, the thread is free again.  The earlier answers are *)
(* remembered where repeated requests are watched.                         *)
Advance(t, thr, c2, watch) ==
    IF thr.pc = "done"
    THEN /\ th' = [th EXCEPT ![t] = IdleThread]
         /\ req' = [op |-> "dynamic_pipeline", arg |-> thr.arg]
         /\ resp' = thr.resp
         /\ trace' = thr.trace
         /\ nresp' = nresp + 1
         /\ hist' = IF watch THEN Remember(hist, thr, c2) ELSE hist
    ELSE /\ th' = [th EXCEPT ![t] = thr]
         /\ Forget
         /\ UNCHANGED <<nresp, hist>>

----------------------------------------------------------------------------
(* The state machine: requests arrive at the worker threads and interleave *)
(* at the blocking calls, while the stores are written out of band.        *)
(* `watch` says whether the earlier answers and failures are recorded.     *)

Init ==
    /\ pipes \in PipeCollections
    /\ games \in GameCollections
    /\ cache = << >>
    /\ th = [t \in Threads |-> IdleThread]
    /\ providerCalls = 0
    /\ nreq = 0
    /\ nresp = 0
    /\ req = NoRequest
    /\ resp = NoResponse
    /\ trace = NoTrace
    /\ hist = NoHist
    /\ lastUse = << >>
    /\ completed = {}
    /\ failed = {}

(* GET /dynamic-pipeline arrives at a free thread: lines 51-53. *)
Receive(t, max, watch) ==
    /\ th[t].pc = "idle"
    /\ nreq < max
    /\ \E nameArg \in NameArgs :
          Advance(t, [dp_validate(nameArg) EXCEPT
                         !.trace.prior = IF watch THEN PriorOf(hist, nameArg)
                                         ELSE None],
                  cache, watch)
    /\ nreq' = nreq + 1
    /\ UNCHANGED <<pipes, games, cache, providerCalls, lastUse, completed, failed>>

(* pipes.find_one answers. *)
Lookup(t) ==
    /\ th[t].pc = "lookup"
    /\ \E lookupFault \in BOOLEAN :
          Advance(t, dp_lookup(th[t], pipes, lookupFault), cache, FALSE)
    /\ UNCHANGED <<pipes, games, cache, providerCalls, nreq, lastUse, completed,
                   failed>>

(* games.aggregate answers. *)
AggregateGames(t) ==
    /\ th[t].pc = "aggregate"
    /\ \E aggFault \in StoreFaults :
          LET r == dp_aggregate(th[t], games, cache, aggFault)
          IN  /\ Advance(t, r.thr, r.cache, FALSE)
              /\ cache' = r.cache
    /\ UNCHANGED <<pipes, games, providerCalls, nreq, lastUse, completed, failed>>

(* The prompt is built and cached_ai_summary is called. *)
BeginSummary(t, watch) ==
    /\ th[t].pc = "summarize"
    /\ LET r == dp_summary_begin(th[t], cache)
           p == r.thr.trace.prompt[1]
       IN  /\ Advance(t, [r.thr EXCEPT !.trace.retry = p \in failed], r.cache,
                      watch)
           /\ cache' = r.cache
           /\ providerCalls' = providerCalls + (IF r.called THEN 1 ELSE 0)
           /\ failed' = failed \ {p}
    /\ UNCHANGED <<pipes, games, nreq, lastUse, completed>>

(* generate_content answers. *)
EndSummary(t, watch) ==
    /\ th[t].pc = "provider"
    /\ \E outcome \in ProviderOutcomes :
          LET r == dp_summary_end(th[t], cache, outcome)
              p == th[t].trace.prompt[1]
          IN  /\ Advance(t, r.thr, r.cache, watch)
              /\ cache' = r.cache
              /\ completed' = IF outcome.ok
                              THEN completed \cup {[prompt |-> p,
                                                    value |-> outcome.text]}
                              ELSE completed
              /\ failed' = IF watch /\ ~outcome.ok THEN failed \cup {p}
                           ELSE failed
    /\ UNCHANGED <<pipes, games, providerCalls, nreq, lastUse>>

(* GET /pipelines arrives at a free thread, which calls pipes.distinct     *)
(* (line 45) and waits for it.                                             *)
ReceiveList(t) ==
    /\ th[t].pc = "idle"
    /\ nreq < MaxRequests
    /\ th' = [th EXCEPT ![t] = [IdleThread EXCEPT !.pc = "distinct"]]
    /\ nreq' = nreq + 1
    /\ Forget
    /\ UNCHANGED <<pipes, games, cache, providerCalls, nresp, hist, lastUse,
                   completed, failed>>

(* pipes.distinct answers: lines 45-46. *)
ListPipelines(t) ==
    /\ th[t].pc = "distinct"
    /\ \E lookupFault \in BOOLEAN :
          /\ req' = [op |-> "pipelines", arg |-> None]
          /\ resp' = get_pipeline_names(pipes, lookupFault)
          /\ trace' = [NoTrace EXCEPT !.calls = <<"distinct">>,
                                      !.lookup = IF lookupFault THEN "raised"
                                                 ELSE "found",
                                      !.cause = IF lookupFault
                                                THEN "No servers found yet"
                                                ELSE ""]
    /\ th' = [th EXCEPT ![t] = IdleThread]
    /\ nresp' = nresp + 1
    /\ UNCHANGED <<pipes, games, cache, providerCalls, nreq, hist, lastUse,
                   completed, failed>>

(* Pipeline definitions are written out of band, at any time. *)
WritePipelines ==
    /\ \E P \in PipeCollections : P # pipes /\ pipes' = P
    /\ Forget
    /\ UNCHANGED <<games, cache, th, providerCalls, nreq, nresp, hist, lastUse,
                   completed, failed>>

(* Game documents are written out of band, at any time. *)
WriteGames ==
    /\ \E G \in GameCollections : G # games /\ games' = G
    /\ Forget
    /\ UNCHANGED <<pipes, cache, th, providerCalls, nreq, nresp, hist, lastUse,
                   completed, failed>>

Next ==
    \/ \E t \in Threads : Receive(t, MaxRequests, FALSE)
    \/ \E t \in Threads : Lookup(t)
    \/ \E t \in Threads : AggregateGames(t)
    \/ \E t \in Threads : BeginSummary(t, FALSE)
    \/ \E t \in Threads : EndSummary(t, FALSE)
    \/ \E t \in Threads : ReceiveList(t)
    \/ \E t \in Threads : ListPipelines(t)
    \/ WritePipelines
    \/ WriteGames

Spec == Init /\ [][Next]_vars

InFlightThreads == {t \in Threads : th[t].pc # "idle"}

(* The threads that handle a Run pipeline request. *)
RunningThreads == {t \in Threads : th[t].pc \notin {"idle", "distinct"}}

----------------------------------------------------------------------------
(* Repeated requests on unchanged stores: the same requests, more of them, *)
(* no write of a store, and a record of the earlier answers and failures.  *)

NextRepeat ==
    \/ \E t \in Threads : Receive(t, MaxRepeats, TRUE)
    \/ \E t \in Threads : Lookup(t)
    \/ \E t \in Threads : AggregateGames(t)
    \/ \E t \in Threads : BeginSummary(t, TRUE)
    \/ \E t \in Threads : EndSummary(t, TRUE)

SpecRepeat == Init /\ [][NextRepeat]_vars

----------------------------------------------------------------------------
(* The cache on its own: cached_ai_summary called directly by the threads, *)
(* starting from an empty, an almost full and a full cache.                *)

(* The prompt of lines 65-66 for a pipeline without description and an     *)
(* empty aggregation result.                                               *)
PromptOf(name) == BuildPrompt(name, [description |-> None], << >>)

FillerPrompt(i) == PromptOf("p" \o ToString(i))

(* The cache after successful calls for the first k filler prompts. *)
Prefill(k) == [i \in 1..k |-> [prompt |-> FillerPrompt(i), value |-> "s1"]]

PrefillSizes == {0, MaxSize - 1, MaxSize}

CachePrompts ==
    {FillerPrompt(1), FillerPrompt(2), FillerPrompt(MaxSize),
     PromptOf("new1"), PromptOf("new2")}

InitCache ==
    /\ pipes = << >>
    /\ games = << >>
    /\ \E k \in PrefillSizes : cache = Prefill(k)
    /\ th = [t \in Threads |-> IdleThread]
    /\ providerCalls = Len(cache)
    /\ nreq = 0
    /\ nresp = 0
    /\ req = NoRequest
    /\ resp = NoResponse
    /\ trace = NoTrace
    /\ hist = NoHist
    /\ lastUse = [p \in Prompts(cache) |-> Min(CacheIndex(cache, p)) - Len(cache)]
    /\ completed = Entries(cache)
    /\ failed = {}

(* The log of a direct call. *)
CallTrace(prompt, sum, provider) ==
    [NoTrace EXCEPT !.calls = IF sum = "hit" THEN <<"cached_ai_summary">>
                              ELSE <<"cached_ai_summary", "generate_content">>,
                    !.sum = sum, !.prompt = Some(prompt), !.provider = provider,
                    !.cause = IF sum = "raised" THEN provider[1].text ELSE ""]

(* cached_ai_summary(prompt) is called: a hit returns, a miss calls        *)
(* generate_content.                                                       *)
BeginCall(t) ==
    /\ th[t].pc = "idle"
    /\ nreq < MaxCacheCalls
    /\ \E prompt \in CachePrompts :
          LET l == lru_lookup(cache, prompt)
          IN  /\ cache' = l.cache
              /\ IF l.hit
                 THEN /\ req' = [op |-> "cached_ai_summary", arg |-> Some(prompt)]
                      /\ resp' = [status |-> 0, body |-> [value |-> l.value]]
                      /\ trace' = CallTrace(prompt, "hit", None)
                      /\ lastUse' = Used(lastUse, l.cache, prompt)
                      /\ nresp' = nresp + 1
                      /\ UNCHANGED <<th, providerCalls>>
                 ELSE /\ th' = [th EXCEPT ![t] =
                                   [IdleThread EXCEPT !.pc = "calling",
                                                      !.arg = Some(prompt)]]
                      /\ providerCalls' = providerCalls + 1
                      /\ Forget
                      /\ UNCHANGED <<lastUse, nresp>>
    /\ nreq' = nreq + 1
    /\ UNCHANGED <<pipes, games, hist, completed, failed>>

(* generate_content answers a direct call. *)
EndCall(t) ==
    /\ th[t].pc = "calling"
    /\ \E outcome \in ProviderOutcomes :
          LET prompt == th[t].arg[1]
              r      == cached_ai_summary_return(cache, prompt, outcome)
          IN  /\ cache' = r.cache
              /\ req' = [op |-> "cached_ai_summary", arg |-> Some(prompt)]
              /\ resp' = [status |-> 0,
                          body |-> IF r.raised THEN [raised |-> r.value]
                                   ELSE [value |-> r.value]]
              /\ trace' = CallTrace(prompt, IF r.raised THEN "raised" ELSE "computed",
                                    ProviderCall(prompt, outcome))
              /\ lastUse' = IF prompt \in Prompts(r.cache) \ Prompts(cache)
                            THEN Used(lastUse, r.cache, prompt)
                            ELSE lastUse
              /\ completed' = IF outcome.ok
                              THEN completed \cup {[prompt |-> prompt,
                                                    value |-> outcome.text]}
                              ELSE completed
    /\ th' = [th EXCEPT ![t] = IdleThread]
    /\ nresp' = nresp + 1
    /\ UNCHANGED <<pipes, games, providerCalls, nreq, hist, failed>>

NextCache ==
    \/ \E t \in Threads : BeginCall(t)
    \/ \E t \in Threads : EndCall(t)

SpecCache == InitCache /\ [][NextCache]_vars

----------------------------------------------------------------------------
(* Requests on a warm cache: the application after successful requests for *)
(* other pipelines have left an empty, an almost full or a full cache.     *)
(* The requests interleave as in Spec while the games are written; the     *)
(* pipeline definitions stay as they are.                                  *)

InitWarm ==
    /\ pipes \in PipeCollections
    /\ games \in GameCollections
    /\ \E k \in PrefillSizes : cache = Prefill(k)
    /\ th = [t \in Threads |-> IdleThread]
    /\ providerCalls = Len(cache)
    /\ nreq = 0
    /\ nresp = 0
    /\ req = NoRequest
    /\ resp = NoResponse
    /\ trace = NoTrace
    /\ hist = NoHist
    /\ lastUse = << >>
    /\ completed = Entries(cache)
    /\ failed = {}

NextWarm ==
    \/ \E t \in Threads : Receive(t, MaxRequests, FALSE)
    \/ \E t \in Threads : Lookup(t)
    \/ \E t \in Threads : AggregateGames(t)
    \/ \E t \in Threads : BeginSummary(t, FALSE)
    \/ \E t \in Threads : EndSummary(t, FALSE)
    \/ WriteGames

SpecWarm == InitWarm /\ [][NextWarm]_vars

----------------------------------------------------------------------------
(* Properties of Run pipeline (specification Spec) *)

Contains(s, t) ==
    \E i \in 1..(Len(s) - Len(t) + 1) : SubSeq(s, i, i + Len(t) - 1) = t

(* The last step answered a Run pipeline request. *)
Ran == req.op = "dynamic_pipeline"

HasName(r) == r.arg # None /\ r.arg[1] # ""

Stored(P, name) == \E i \in 1..Len(P) : P[i].name = name

(* C1: a Run pipeline request without name, or with the empty name, is     *)
(* answered 400 {"error": "Missing pipeline name"} in every state of the   *)
(* stores and the cache, having made no lookup, aggregation or provider    *)
(* call; no such request gets past the validation.                         *)
C1_MissingNameIs400 ==
    /\ \A t \in RunningThreads : HasName(th[t])
    /\ (Ran /\ ~HasName(req))
        => /\ resp = [status |-> 400, body |-> [error |-> "Missing pipeline name"]]
           /\ trace.calls = << >>
           /\ trace.lookup = "skipped" /\ trace.agg = "skipped"
           /\ trace.sum = "skipped" /\ trace.provider = None

C1_Witness ==
    /\ Ran
    /\ req.arg = Some("")
    /\ resp.status = 400
    /\ Stored(pipes, "top")
    /\ cache # << >>

(* Thread t gets the answer of find_one in this step. *)
LookupStep(t) == th[t].pc = "lookup" /\ th'[t].pc # "lookup"

(* The log of the request of thread t after this step. *)
After(t) == IF th'[t].pc = "idle" THEN trace' ELSE th'[t].trace

(* C2: when find_one answers a Run pipeline request with a non-empty name  *)
(* of which the store holds no definition, the request is answered 404     *)
(* with a message that contains the name; nothing is aggregated or         *)
(* summarised for it.                                                      *)
C2_UnknownNameIs404 ==
    [][ \A t \in Threads :
            (LookupStep(t) /\ After(t).lookup # "raised"
                 /\ ~Stored(pipes, th[t].arg[1]))
                => /\ HasName(th[t])
                   /\ th'[t].pc = "idle"
                   /\ req' = [op |-> "dynamic_pipeline", arg |-> th[t].arg]
                   /\ resp'.status = 404
                   /\ DOMAIN resp'.body = {"error"}
                   /\ Contains(resp'.body.error, th[t].arg[1])
                   /\ trace'.calls = <<"find_one">>
                   /\ trace'.agg = "skipped" /\ trace'.sum = "skipped"
                   /\ trace'.provider = None
                   /\ cache' = cache /\ providerCalls' = providerCalls ]_vars

C2_Witness ==
    /\ Ran
    /\ req.arg = Some("nope")
    /\ resp.status = 404
    /\ pipes # << >>

(* C3 as stated: every request whose lookup found the name in the store   *)
(* is answered 200 with that title.                                        *)
C3_StoredNameIs200 ==
    (Ran /\ trace.lookup = "found")
        => (resp.status = 200 /\ resp.body.title = req.arg[1])

(* C3 amended: when find_one answers a request for a stored name, it finds *)
(* the first definition of that name; such a request is never answered 400 *)
(* or 404: it is answered 200 with the name as title when its aggregation  *)
(* and its summarisation succeed, and 500 otherwise, also when find_one    *)
(* raises.                                                                 *)
C3_StoredNameIs200OrFails ==
    /\ [][ \A t \in Threads :
              (LookupStep(t) /\ After(t).lookup # "raised"
                   /\ Stored(pipes, th[t].arg[1]))
                  => /\ After(t).lookup = "found"
                     /\ After(t).doc = find_one(pipes, th[t].arg[1])
                     /\ After(t).doc[1].name = th[t].arg[1] ]_vars
    /\ []((Ran /\ trace.lookup = "found")
            => IF trace.agg = "ok" /\ trace.sum \in {"hit", "computed"}
               THEN resp.status = 200 /\ resp.body.title = req.arg[1]
               ELSE resp.status = 500 /\ DOMAIN resp.body = {"error"})
    /\ []((Ran /\ trace.lookup = "raised") => resp.status = 500)

C3_Witness ==
    /\ Ran
    /\ req.arg = Some("top")
    /\ resp.status = 200
    /\ resp.body.title = "top"

(* C4: when lookup, aggregation and summarisation of a request succeed,    *)
(* the answer is 200 with the name as title, the description of the        *)
(* document its lookup found, or "", as description, the records its own   *)
(* aggregation returned as data, and as ai_summary the summary of the      *)
(* prompt built from these three: the cached value of that prompt on a     *)
(* hit, the text the provider returned for that prompt otherwise.          *)
C4_SuccessBody ==
    (Ran /\ trace.lookup = "found" /\ trace.agg = "ok"
         /\ trace.sum \in {"hit", "computed"})
        => LET name   == req.arg[1]
               doc    == trace.doc[1]
               data   == trace.data[1]
               prompt == BuildPrompt(name, doc, data)
           IN  /\ doc.name = name
               /\ resp.status = 200
               /\ resp.body.title = name
               /\ resp.body.description
                      = (IF doc.description = None THEN "" ELSE doc.description[1])
               /\ resp.body.data = data
               /\ trace.prompt = Some(prompt)
               /\ IF trace.sum = "hit"
                  THEN /\ trace.provider = None
                       /\ [prompt |-> prompt, value |-> resp.body.ai_summary]
                              \in Entries(cache)
                  ELSE /\ trace.provider # None
                       /\ trace.provider[1].prompt = prompt
                       /\ trace.provider[1].ok
                       /\ resp.body.ai_summary = trace.provider[1].text

C4_Witness ==
    /\ Ran
    /\ resp.status = 200
    /\ resp.body.description = ""
    /\ Len(resp.body.data) = 2
    /\ trace.sum = "computed"

(* C8: when running the stored stages raises (the stages are rejected, the *)
(* document has no stages, or the server fails) the answer is 500          *)
(* {"error": "MongoDB error: <cause>"} and the provider is not called; an  *)
(* aggregation that succeeds with no records goes on to the summary and    *)
(* is answered 200 with data = [] when the summary succeeds.               *)
C8_FailureIsNotEmptyResult ==
    (Ran /\ trace.lookup = "found")
        => LET doc == trace.doc[1]
           IN  /\ (doc.pipeline # Some(GROUP_STAGES) \/ trace.agg = "raised")
                    => /\ trace.cause # ""
                       /\ resp = [status |-> 500,
                                  body |-> [error |-> "MongoDB error: " \o trace.cause]]
                       /\ trace.data = None
                       /\ trace.sum = "skipped"
                       /\ trace.provider = None
               /\ (doc.pipeline = Some(GROUP_STAGES) /\ trace.agg = "ok"
                        /\ trace.data = Some(<< >>))
                    => /\ trace.sum # "skipped"
                       /\ trace.sum \in {"hit", "computed"}
                            => resp.status = 200 /\ resp.body.data = << >>
                       /\ trace.sum = "raised"
                            => ~Contains(resp.body.error, "MongoDB error")

C8_Witness ==
    /\ Ran
    /\ games = << >>
    /\ trace.agg = "ok"
    /\ resp.status = 200
    /\ resp.body.data = << >>

(* C9: when lookup and aggregation succeed and generate_content raises,    *)
(* the answer is 500 {"error": "Gemini error: <cause>"}: not 200, and      *)
(* without data or ai_summary.                                             *)
C9_SummaryFailureIs500 ==
    (Ran /\ trace.provider # None /\ ~trace.provider[1].ok)
        => /\ trace.lookup = "found"
           /\ trace.agg = "ok"
           /\ resp = [status |-> 500,
                      body |-> [error |-> "Gemini error: " \o trace.provider[1].text]]

C9_Witness ==
    /\ Ran
    /\ trace.sum = "raised"
    /\ trace.data # None
    /\ trace.data[1] # << >>
    /\ resp.status = 500

(* C10: every Run pipeline answer other than 200 has status 400, 404 or    *)
(* 500 and a body {"error": <string>}, whichever stage failed, a lookup    *)
(* that raises included.                                                   *)
C10_ErrorsAreJson ==
    (Ran /\ resp.status # 200)
        => /\ resp.status \in {400, 404, 500}
           /\ DOMAIN resp.body = {"error"}

(* The last step answered a List pipelines request. *)
Listed == req.op = "pipelines"

NamesOf(P) == {P[i].name : i \in 1..Len(P)}

(* C11: List pipelines (the store answers) returns 200 with an array that  *)
(* holds every name of the store exactly once and no other name; for the   *)
(* empty store it is the empty array.                                      *)
C11_ListIsDistinctNames ==
    (Listed /\ trace.lookup # "raised")
        => /\ resp.status = 200
           /\ DOMAIN resp.body = {"array"}
           /\ LET arr == resp.body.array
              IN  /\ {arr[i] : i \in 1..Len(arr)} = NamesOf(pipes)
                  /\ Len(arr) = Cardinality(NamesOf(pipes))
                  /\ pipes = << >> => arr = << >>

C11_Witness ==
    /\ Listed
    /\ resp.status = 200
    /\ Len(pipes) = 2
    /\ resp.body.array = <<"top">>
    /\ RunningThreads # {}

(* C15: a lookup that raises is never answered 404; 404 is the answer only *)
(* of a lookup that completed and found no document of that name.          *)
C15_StoreFailureIsNot404 ==
    /\ [](Ran => /\ trace.lookup = "raised" => resp.status # 404
                 /\ resp.status = 404 => trace.lookup = "missing" /\ HasName(req))
    /\ [][ \A t \in Threads :
              (th[t].pc # "idle" /\ th'[t].pc = "idle" /\ resp'.status = 404)
                  => /\ LookupStep(t)
                     /\ ~Stored(pipes, th[t].arg[1]) ]_vars

C15_Witness ==
    /\ Ran
    /\ trace.lookup = "raised"
    /\ HasName(req)
    /\ ~Stored(pipes, req.arg[1])
    /\ resp.status = 500

(* Thread t calls cached_ai_summary in this step. *)
SummaryStep(t) == th[t].pc = "summarize" /\ th'[t].pc # "summarize"

(* The prompt of the request of thread t, from what the request obtained. *)
PromptAt(t) == BuildPrompt(th[t].arg[1], th[t].trace.doc[1], th[t].trace.data[1])

(* C16: a request reuses a cached summary exactly when the cache holds the *)
(* prompt built from its name, its description and the rendering of its    *)
(* aggregation result, and then the summary is the one stored under that   *)
(* prompt; otherwise it calls the provider with that prompt, so a summary  *)
(* stored for the same name with differently rendered data is not reused.  *)
C16_KeyIsWholePrompt ==
    [][ \A t \in Threads : SummaryStep(t)
           => IF InCache(cache, PromptAt(t))
              THEN /\ providerCalls' = providerCalls
                   /\ trace'.sum = "hit"
                   /\ resp'.status = 200
                   /\ resp'.body.ai_summary = CacheValue(cache, PromptAt(t))
              ELSE /\ providerCalls' = providerCalls + 1
                   /\ th'[t].pc = "provider"
                   /\ th'[t].trace.prompt = Some(PromptAt(t)) ]_vars

C16_Witness ==
    /\ Ran
    /\ trace.sum = "computed"
    /\ providerCalls = 2
    /\ Len(cache) = 2
    /\ cache[1].prompt = BuildPrompt("top", TopGenres, << >>)
    /\ cache[2].prompt = BuildPrompt("top", TopGenres, GroupByGenre(<<"A">>))

(* C17: a Run pipeline request answered 400, 404 or 500 "MongoDB error"    *)
(* never called cached_ai_summary or the provider, and none of its steps   *)
(* changed the cache, contents or order; neither does List pipelines.      *)
C17_EarlyExitsLeaveCache ==
    /\ [](Ran /\ resp.status # 200 /\ trace.sum = "skipped"
            => /\ trace.provider = None
               /\ trace.prompt = None
               /\ ~Contains(trace.calls, <<"cached_ai_summary">>))
    /\ []((Ran /\ (resp.status \in {400, 404} \/ trace.agg = "raised"))
            => trace.sum = "skipped")
    /\ [][ (\A t \in Threads : th[t].pc \notin {"summarize", "provider"}
                                 \/ th'[t].pc = th[t].pc)
            => (cache' = cache /\ providerCalls' = providerCalls) ]_vars

C17_Witness ==
    /\ Ran
    /\ trace.agg = "raised"
    /\ resp.status = 500
    /\ Len(cache) = 1

----------------------------------------------------------------------------
(* Properties of concurrent requests (specification Spec) *)

(* The threads whose call of generate_content for the prompt is in flight. *)
InFlight(prompt) ==
    {t \in Threads : th[t].pc = "provider" /\ th[t].trace.prompt = Some(prompt)}

(* C12 as stated: no two requests have a provider call for the same prompt *)
(* in flight.                                                              *)
C12_OneCallPerPrompt ==
    \A t1, t2 \in Threads :
        (t1 # t2 /\ th[t1].pc = "provider" /\ th[t2].pc = "provider")
            => th[t1].trace.prompt # th[t2].trace.prompt

(* C12 amended: a request starts a provider call for a prompt only when    *)
(* the cache does not hold the prompt at its lookup, and that is one more  *)
(* provider call; requests that miss the same prompt concurrently may each *)
(* have a call for it in flight.                                           *)
C12_CallOnlyOnMiss ==
    [][ \A t \in Threads :
            (th[t].pc # "provider" /\ th'[t].pc = "provider")
                => /\ th[t].pc = "summarize"
                   /\ ~InCache(cache, PromptAt(t))
                   /\ th'[t].trace.prompt = Some(PromptAt(t))
                   /\ providerCalls' = providerCalls + 1 ]_vars

C12_Witness ==
    \E p \in {BuildPrompt("top", TopGenres, GroupByGenre(<<"A">>))} :
        /\ InFlight(p) = Threads
        /\ ~InCache(cache, p)
        /\ providerCalls = 2

(* C13 (specification SpecWarm): in every interleaving, also when the      *)
(* requests store into a full cache, the ai_summary of a 200 answer is the *)
(* text of a generate_content call that returned for exactly the prompt of *)
(* that request, every cache entry is such a text under its own prompt, no *)
(* prompt is cached twice, and the cache holds at most 32 entries.         *)
C13_OnlyCompletedValues ==
    /\ (Ran /\ resp.status = 200)
           => [prompt |-> BuildPrompt(req.arg[1], trace.doc[1], trace.data[1]),
               value  |-> resp.body.ai_summary] \in completed
    /\ Entries(cache) \subseteq completed
    /\ Cardinality(Prompts(cache)) = Len(cache)
    /\ Len(cache) <= MaxSize

(* Two requests missed the same prompt while the cache was full: the first *)
(* to return evicted the oldest entry, the second is answered its own text *)
(* and leaves the cache alone.                                             *)
C13_Witness ==
    /\ Ran
    /\ resp.status = 200
    /\ trace.sum = "computed"
    /\ InCache(cache, trace.prompt[1])
    /\ CacheValue(cache, trace.prompt[1]) # resp.body.ai_summary
    /\ Len(cache) = MaxSize
    /\ ~InCache(cache, FillerPrompt(1))
    /\ InCache(cache, FillerPrompt(2))

StageOrder ==
    <<"find_one", "aggregate", "build_prompt", "cached_ai_summary", "generate_content">>

IsPrefix(a, b) == Len(a) <= Len(b) /\ a = SubSeq(b, 1, Len(a))

(* The stages a request has behind it when it waits for a blocking call. *)
CallsAt(pc) ==
    IF pc = "lookup" THEN << >>
    ELSE IF pc = "aggregate" THEN SubSeq(StageOrder, 1, 1)
    ELSE IF pc = "summarize" THEN SubSeq(StageOrder, 1, 2)
    ELSE StageOrder

(* The stages a request has behind it when it is answered. *)
CallsAtResponse(response, tr) ==
    IF response.status = 400 THEN << >>
    ELSE IF response.status = 404 THEN SubSeq(StageOrder, 1, 1)
    ELSE IF response.status = 200
    THEN (IF tr.sum = "hit" THEN SubSeq(StageOrder, 1, 4) ELSE StageOrder)
    ELSE IF DOMAIN response.body # {"error"} THEN SubSeq(StageOrder, 1, 1)
    ELSE IF Contains(response.body.error, "MongoDB error")
    THEN (IF HasStages(tr.doc[1]) THEN SubSeq(StageOrder, 1, 2)
          ELSE SubSeq(StageOrder, 1, 1))
    ELSE StageOrder

(* C14: the stages of one request are reached in the order lookup,         *)
(* aggregation, prompt building, summarisation, each at most once; a       *)
(* request is answered exactly once, by the stage that fails first or by   *)
(* the last stage, and a thread that has answered runs no further stage.   *)
C14_StagesInOrderOnce ==
    /\ \A t \in Threads :
           /\ IsPrefix(th[t].trace.calls, StageOrder)
           /\ t \in RunningThreads => th[t].trace.calls = CallsAt(th[t].pc)
           /\ th[t].pc = "idle" => th[t] = IdleThread
    /\ Ran => trace.calls = CallsAtResponse(resp, trace)
    /\ nreq = nresp + Cardinality(InFlightThreads)

C14_Witness ==
    /\ Ran
    /\ resp.status = 200
    /\ trace.calls = StageOrder
    /\ nresp = 2
    /\ InFlightThreads = {}

----------------------------------------------------------------------------
(* Properties of repeated requests (specification SpecRepeat) *)

(* The request answered by the last step arrived after an earlier request  *)
(* for its name was answered 200, and built the same prompt; no store was  *)
(* written in between.                                                     *)
Repeated ==
    /\ Ran
    /\ trace.prior # None
    /\ trace.prompt = Some(trace.prior[1].prompt)

(* C5 as stated: the second call makes no provider call and returns the    *)
(* ai_summary of the first.                                                *)
C5_SecondCallSameSummary ==
    Repeated
        => /\ trace.provider = None
           /\ resp.status = 200
           /\ resp.body.ai_summary = trace.prior[1].summary

(* C5 amended: the second call makes no provider call and returns the      *)
(* summary that the cache holds for the prompt; that is the ai_summary of  *)
(* the first call unless the first call computed its summary while another *)
(* request, which stored its own first, computed one for the same prompt.  *)
C5_SecondCallHitsCache ==
    /\ \A t \in InFlightThreads :
           (th[t].trace.prior # None
               /\ th[t].trace.prompt = Some(th[t].trace.prior[1].prompt))
             => th[t].pc # "provider"
    /\ Repeated
        => /\ trace.sum = "hit"
           /\ trace.provider = None
           /\ resp.status = 200
           /\ [prompt |-> trace.prompt[1], value |-> resp.body.ai_summary]
                  \in Entries(cache)
           /\ trace.prior[1].kept
                  => resp.body.ai_summary = trace.prior[1].summary

C5_Witness ==
    /\ Repeated
    /\ trace.sum = "hit"
    /\ trace.prior[1].kept
    /\ resp.body.ai_summary = trace.prior[1].summary
    /\ providerCalls = 1
    /\ nresp = 2

(* C7 as stated: the call of cached_ai_summary that follows a failed       *)
(* provider call for the same prompt calls the provider again.             *)
C7_RetriedOnNextCall ==
    (Ran /\ trace.retry) => trace.provider # None

(* C7 amended: when generate_content raises for a prompt, that step leaves *)
(* the cache as it was, the failure reaches the handler (its answer        *)
(* carries the cause), and the next call of cached_ai_summary with the     *)
(* prompt calls the provider again, unless a request that computed the     *)
(* same prompt concurrently has stored its summary in the meantime: then   *)
(* the call returns that summary, the text of a completed provider call.   *)
C7_FailureNotCached ==
    /\ [][ (req'.op = "dynamic_pipeline" /\ trace'.provider # None
                /\ ~trace'.provider[1].ok)
            => /\ cache' = cache
               /\ trace'.sum = "raised"
               /\ resp'.status # 200
               /\ Contains(resp'.body.error, trace'.provider[1].text) ]_vars
    /\ [][ \A t \in Threads : (SummaryStep(t) /\ PromptAt(t) \in failed)
            => IF InCache(cache, PromptAt(t))
               THEN /\ resp'.status = 200
                    /\ [prompt |-> PromptAt(t), value |-> resp'.body.ai_summary]
                           \in completed
               ELSE /\ th'[t].pc = "provider"
                    /\ providerCalls' = providerCalls + 1 ]_vars
    /\ [](\A e \in Entries(cache) : e \in completed)

C7_Witness ==
    /\ Ran
    /\ trace.retry
    /\ trace.sum = "computed"
    /\ resp.status = 200
    /\ providerCalls = 2
    /\ Len(cache) = 1

----------------------------------------------------------------------------
(* Properties of the cache (specification SpecCache) *)

(* The least recently used prompt of the cache, by the times of use. *)
IsLeastRecentlyUsed(p) ==
    /\ p \in Prompts(cache)
    /\ \A q \in Prompts(cache) \ {p} : lastUse[p] < lastUse[q]

(* C6: the cache never holds more than 32 entries; a step that stores a    *)
(* new prompt in a full cache removes exactly the prompt whose last use    *)
(* (hit or insertion) is the oldest and keeps all others with their        *)
(* values; no other step removes an entry.                                 *)
C6_BoundedLru ==
    /\ [](Len(cache) <= MaxSize /\ Cardinality(Prompts(cache)) = Len(cache))
    /\ [][ LET new == Prompts(cache') \ Prompts(cache)
           IN  IF new # {} /\ Len(cache) = MaxSize
               THEN \E victim \in Prompts(cache) :
                        /\ IsLeastRecentlyUsed(victim)
                        /\ Cardinality(new) = 1
                        /\ Prompts(cache') = (Prompts(cache) \ {victim}) \cup new
                        /\ \A q \in Prompts(cache) \ {victim} :
                               CacheValue(cache', q) = CacheValue(cache, q)
               ELSE /\ Prompts(cache) \subseteq Prompts(cache')
                    /\ \A q \in Prompts(cache) :
                           CacheValue(cache', q) = CacheValue(cache, q) ]_vars

C6_Witness ==
    /\ req.op = "cached_ai_summary"
    /\ trace.sum = "computed"
    /\ Len(cache) = MaxSize
    /\ InCache(cache, FillerPrompt(1))
    /\ ~InCache(cache, FillerPrompt(2))

====
